---- MODULE Spec2Model ----
(***************************************************************************)
(* A model of the Asteroids game of this repository: the Game state        *)
(* machine (game.ts), the entities Ship / Asteroid / Bullet                *)
(* (game-objects.ts), the InputManager and the HighScoreManager.           *)
(*                                                                         *)
(* Units.  Times are integers in milliseconds (the code divides the frame  *)
(* timestamp difference by 1000; maxFireDelay 0.15 s is 150, maxLifeTime   *)
(* 2 s is 2000).  Positions are integers in canvas units and velocities    *)
(* integers in canvas units per second; a product velocity * deltaTime is  *)
(* truncated to an integer (fixed point), which is exact for every         *)
(* asteroid and for bullets fired at rotation 0 with the frame times used. *)
(* A ship rotation is an integer number of 1/12 rad steps (one rotate()    *)
(* call turns by 5 * (1/60) rad).  An asteroid's display rotation and      *)
(* rotationSpeed are read only by render and are left out.                 *)
(***************************************************************************)
EXTENDS Integers, Sequences, FiniteSets, Bags, TLC

VARIABLES
    state,        \* Game.state : READY | PLAYING | GAME_OVER | PAUSED
    score,        \* Game.score
    lives,        \* Game.lives
    level,        \* Game.level
    lastTime,     \* Game.lastTime (ms)
    fireDelay,    \* Game.fireDelay (ms)
    ship,         \* Game.ship
    asteroids,    \* Game.asteroids
    bullets,      \* Game.bullets
    statusText,   \* statusElement.textContent
    keys,         \* InputManager.keys
    canvasSize,   \* VectorRenderer.getCanvasSize()
    stored,       \* localStorage: the item under STORAGE_KEY and how the storage fails
    submitted,    \* history: every HighScoreManager.addScore(score, level) call
    frames,       \* history: number of frame callbacks run
    sinceFire,    \* history: PLAYING time (ms) since the last bullet was created, -1 if none was
    keyEvents,    \* history: number of keyboard events delivered
    clock,        \* the timestamp (ms) of the latest frame callback, or of start()
    idle,         \* history: the interval (ms) of the latest frame if it ran outside PLAYING, else 0
    env,          \* the environment of the run
    pre,          \* history: the Game's fields when the last handler began
    ev            \* history: what the last handler did

vars == <<state, score, lives, level, lastTime, fireDelay, ship, asteroids,
          bullets, statusText, keys, canvasSize, stored, submitted, frames,
          sinceFire, keyEvents, clock, idle, env, pre, ev>>

(***************************************************************************)
(* Program constants                                                       *)
(***************************************************************************)
maxFireDelay == 150
maxLifeTime == 2000
bulletSpeed == 400
maxSpeed == 300
thrustPower == 400
frictionPercent == 98
shipRadius == 12
bulletRadius == 2
asteroidBaseRadius == 20
spawnClearance == 100
startLives == 3
startLevel == 1
baseAsteroids == 4
numPieces == 2
MAX_SCORES == 10
pointsLarge == 20
pointsMedium == 50
pointsSmall == 100

(***************************************************************************)
(* Bounds of the model                                                     *)
(***************************************************************************)
MaxFrames == 5
MaxKeyEvents == 3
MaxFieldFrames == 38
MaxBound == 3
MaxDist == 41
MaxSubmits == 11

(***************************************************************************)
(* Arithmetic                                                              *)
(***************************************************************************)
Abs(n) == IF n < 0 THEN -n ELSE n

\* n / d truncated toward zero, d > 0
Trunc(n, d) == IF n >= 0 THEN n \div d ELSE -((-n) \div d)

\* floor of the square root
ISqrt(n) == CHOOSE r \in 0..2000 : r * r <= n /\ (r + 1) * (r + 1) > n

\* 1000 * sin(k/12) and 1000 * cos(k/12), rounded, for |k| <= 12
SinTable == <<83, 166, 247, 327, 405, 479, 551, 618, 682, 740, 794, 841>>
CosTable == <<997, 986, 969, 945, 914, 878, 835, 786, 732, 672, 608, 540>>
Sin1000(k) == IF k = 0 THEN 0 ELSE IF k > 0 THEN SinTable[k] ELSE -SinTable[-k]
Cos1000(k) == IF k = 0 THEN 1000 ELSE CosTable[Abs(k)]

\* velocity (units/s) times deltaTime (ms), in units
MulDt(v, dt) == Trunc(v * dt, 1000)

RemoveAt(s, i) == [k \in 1..(Len(s) - 1) |-> IF k < i THEN s[k] ELSE s[k + 1]]

(***************************************************************************)
(* Entities (game-objects.ts)                                              *)
(***************************************************************************)
\* new Ship(x, y)
Ship(x, y) ==
    [kind |-> "ship", x |-> x, y |-> y, vx |-> 0, vy |-> 0, rotation |-> 0,
     scale |-> 10, active |-> TRUE, thrust |-> 0]

\* scale in tenths: large 1, medium 0.6, small 0.3
scaleOf(size) ==
    CASE size = "large" -> 10
      [] size = "medium" -> 6
      [] size = "small" -> 3

\* new Asteroid(x, y, size); vel is the random velocity the constructor draws
\* (cos(angle) * speed, sin(angle) * speed with speed in [50, 150))
Asteroid(x, y, size, vel) ==
    [kind |-> "asteroid", x |-> x, y |-> y, vx |-> vel[1], vy |-> vel[2],
     size |-> size, scale |-> scaleOf(size), active |-> TRUE]

\* new Bullet(x, y, angle)
Bullet(x, y, angle) ==
    [kind |-> "bullet", x |-> x, y |-> y,
     vx |-> Trunc(Sin1000(angle) * bulletSpeed, 1000),
     vy |-> -Trunc(Cos1000(angle) * bulletSpeed, 1000),
     lifeTime |-> 0, active |-> TRUE]

getCollisionRadius(o) ==
    CASE o.kind = "ship" -> shipRadius
      [] o.kind = "bullet" -> bulletRadius
      [] o.kind = "asteroid" -> (asteroidBaseRadius * o.scale) \div 10

\* variant: touching counts as colliding
collidesWith_touching(a, b) ==
    LET dx == a.x - b.x
        dy == a.y - b.y
        r  == getCollisionRadius(a) + getCollisionRadius(b)
    IN  dx * dx + dy * dy <= r * r

\* sqrt(dx*dx + dy*dy) < ra + rb, compared on the squares
collidesWith(a, b) ==
    LET dx == a.x - b.x
        dy == a.y - b.y
        r  == getCollisionRadius(a) + getCollisionRadius(b)
    IN  dx * dx + dy * dy < r * r

\* variant: a wrap that keeps the overshoot
wrapAxis_modulo(p, bound) ==
    LET p1 == IF p < 0 THEN p + bound ELSE p
    IN  IF p1 > bound THEN p1 - bound ELSE p1

wrapAxis(p, bound) ==
    LET p1 == IF p < 0 THEN bound ELSE p
    IN  IF p1 > bound THEN 0 ELSE p1

\* variant: only the x coordinate wraps
wrapPosition_xOnly(o, size) == [o EXCEPT !.x = wrapAxis(o.x, size.x)]

wrapPosition(o, size) ==
    [o EXCEPT !.x = wrapAxis(o.x, size.x), !.y = wrapAxis(o.y, size.y)]

Ship_update(s, dt, size) ==
    LET thrustX == IF s.thrust > 0
                   THEN Trunc(Sin1000(s.rotation) * thrustPower * dt, 1000000)
                   ELSE 0
        thrustY == IF s.thrust > 0
                   THEN -Trunc(Cos1000(s.rotation) * thrustPower * dt, 1000000)
                   ELSE 0
        vx1 == s.vx + thrustX
        vy1 == s.vy + thrustY
        over == vx1 * vx1 + vy1 * vy1 > maxSpeed * maxSpeed
        speed == ISqrt(vx1 * vx1 + vy1 * vy1)
        vx2 == IF over THEN Trunc(vx1 * maxSpeed, speed) ELSE vx1
        vy2 == IF over THEN Trunc(vy1 * maxSpeed, speed) ELSE vy1
        vx3 == Trunc(vx2 * frictionPercent, 100)
        vy3 == Trunc(vy2 * frictionPercent, 100)
    IN  wrapPosition([s EXCEPT !.vx = vx3, !.vy = vy3,
                               !.x = s.x + MulDt(vx3, dt),
                               !.y = s.y + MulDt(vy3, dt)], size)

Ship_setThrust(s, thrust) ==
    [s EXCEPT !.thrust = IF thrust < 0 THEN 0 ELSE IF thrust > 1 THEN 1 ELSE thrust]

Ship_rotate(s, direction) == [s EXCEPT !.rotation = s.rotation + direction]

Asteroid_update(a, dt, size) ==
    wrapPosition([a EXCEPT !.x = a.x + MulDt(a.vx, dt),
                           !.y = a.y + MulDt(a.vy, dt)], size)

\* variant: a bullet is deactivated when its lifetime reaches maxLifeTime
Bullet_update_early(b, dt, size) ==
    LET life == b.lifeTime + dt
    IN  IF life >= maxLifeTime
        THEN [b EXCEPT !.lifeTime = life, !.active = FALSE]
        ELSE wrapPosition([b EXCEPT !.lifeTime = life,
                                    !.x = b.x + MulDt(b.vx, dt),
                                    !.y = b.y + MulDt(b.vy, dt)], size)

Bullet_update(b, dt, size) ==
    LET life == b.lifeTime + dt
    IN  IF life > maxLifeTime
        THEN [b EXCEPT !.lifeTime = life, !.active = FALSE]
        ELSE wrapPosition([b EXCEPT !.lifeTime = life,
                                    !.x = b.x + MulDt(b.vx, dt),
                                    !.y = b.y + MulDt(b.vy, dt)], size)

(***************************************************************************)
(* localStorage.  A store is [fault, item]: fault is "none", or "read"     *)
(* (getItem throws) or "write" (setItem throws); item is [valid, list]:    *)
(* the text under STORAGE_KEY parses (valid) to list, or does not parse.   *)
(* A valid item with the empty list also stands for no item.  A call that  *)
(* can throw returns [threw, value].                                       *)
(***************************************************************************)
Ok(v) == [threw |-> FALSE, value |-> v]
Thrown(v) == [threw |-> TRUE, value |-> v]

localStorage_getItem(store) ==
    IF store.fault = "read" THEN Thrown(store.item) ELSE Ok(store.item)

localStorage_setItem(store, list) ==
    IF store.fault = "write" THEN Thrown(store)
    ELSE Ok([store EXCEPT !.item = [valid |-> TRUE, prior |-> <<>>, list |-> list]])

JSON_parse(item) == IF item.valid THEN Ok(item.list) ELSE Thrown(<<>>)

(***************************************************************************)
(* HighScoreManager (high-score-manager.ts).  An entry is [score, level];  *)
(* the date string is not read by any code and is left out.                *)
(***************************************************************************)
\* variant: an unstable sort that puts a later entry before its equals
RECURSIVE insertDesc_lateWins(_, _)
insertDesc_lateWins(s, e) ==
    IF s = <<>> THEN <<e>>
    ELSE IF s[1].score > e.score
         THEN <<s[1]>> \o insertDesc_lateWins(Tail(s), e)
         ELSE <<e>> \o s

\* the position a stable descending sort gives e among the sorted s
RECURSIVE insertDesc(_, _)
insertDesc(s, e) ==
    IF s = <<>> THEN <<e>>
    ELSE IF s[1].score >= e.score
         THEN <<s[1]>> \o insertDesc(Tail(s), e)
         ELSE <<e>> \o s

\* Array.prototype.sort((a, b) => b.score - a.score): stable, descending
RECURSIVE sortDesc(_)
sortDesc(s) ==
    IF s = <<>> THEN <<>>
    ELSE insertDesc(sortDesc(SubSeq(s, 1, Len(s) - 1)), s[Len(s)])

\* the try block of getHighScores
getHighScores_try(store) ==
    LET got == localStorage_getItem(store)
    IN  IF got.threw THEN Thrown(<<>>)
        ELSE IF got.value.valid /\ got.value.list = <<>> THEN Ok(<<>>)
        ELSE LET parsed == JSON_parse(got.value)
             IN  IF parsed.threw THEN Thrown(<<>>) ELSE Ok(sortDesc(parsed.value))

\* variant: getHighScores without its catch
getHighScores_noCatch(store) == getHighScores_try(store)

getHighScores(store) ==
    LET r == getHighScores_try(store)
    IN  IF r.threw THEN Ok(<<>>) ELSE r

\* the try block of addScore: [threw, stored, result] with the store it leaves
\* and the boolean it returns
addScore_try(store, sc, lv) ==
    LET got == getHighScores(store)
        old == [i \in 1..Len(got.value) |->
                   [score |-> got.value[i].score, level |-> got.value[i].level,
                    fresh |-> FALSE]]
        newEntry == [score |-> sc, level |-> lv, fresh |-> TRUE]
        scores == sortDesc(old \o <<newEntry>>)
        topScores == SubSeq(scores, 1, IF Len(scores) < MAX_SCORES THEN Len(scores) ELSE MAX_SCORES)
        put == localStorage_setItem(store,
                   [i \in 1..Len(topScores) |->
                       [score |-> topScores[i].score, level |-> topScores[i].level]])
    IN  IF got.threw \/ put.threw
        THEN [threw |-> TRUE, stored |-> store, result |-> FALSE]
        ELSE [threw |-> FALSE, stored |-> put.value,
              result |-> \E i \in 1..Len(topScores) : topScores[i].fresh]

\* variant: addScore without its catch
HighScoreManager_addScore_noCatch(store, sc, lv) == addScore_try(store, sc, lv)

HighScoreManager_addScore(store, sc, lv) ==
    LET r == addScore_try(store, sc, lv)
    IN  IF r.threw THEN [threw |-> FALSE, stored |-> store, result |-> FALSE] ELSE r

getHighScore(store) ==
    LET scores == getHighScores(store)
    IN  IF scores.threw THEN Thrown(0)
        ELSE Ok(IF Len(scores.value) > 0 THEN scores.value[1].score ELSE 0)

\* variant: a score equal to the last place counts as a high score
isHighScore_orEqual(store, sc) ==
    LET scores == getHighScores(store)
    IN  IF scores.threw THEN Thrown(FALSE)
        ELSE Ok(Len(scores.value) < MAX_SCORES
                \/ sc >= scores.value[Len(scores.value)].score)

isHighScore(store, sc) ==
    LET scores == getHighScores(store)
    IN  IF scores.threw THEN Thrown(FALSE)
        ELSE Ok(Len(scores.value) < MAX_SCORES
                \/ sc > scores.value[Len(scores.value)].score)

(***************************************************************************)
(* InputManager (input-manager.ts)                                         *)
(***************************************************************************)
isKeyPressed(ks, key) == key \in ks
isThrustPressed(ks) == isKeyPressed(ks, "ArrowUp") \/ isKeyPressed(ks, "KeyW")
isLeftPressed(ks) == isKeyPressed(ks, "ArrowLeft") \/ isKeyPressed(ks, "KeyA")
isRightPressed(ks) == isKeyPressed(ks, "ArrowRight") \/ isKeyPressed(ks, "KeyD")
isFirePressed(ks) == isKeyPressed(ks, "Space")

(***************************************************************************)
(* Game (game.ts).  The methods are functions of a record g of the Game's  *)
(* fields; an action reads the record G of the current state and assigns   *)
(* the result of the handler.  The field threw of the record tells that an *)
(* exception has left a HighScoreManager call the handler made; the fields *)
(* are those of the program as long as threw is FALSE.                     *)
(***************************************************************************)
G == [state |-> state, score |-> score, lives |-> lives, level |-> level,
      fireDelay |-> fireDelay, ship |-> ship, asteroids |-> asteroids,
      bullets |-> bullets, statusText |-> statusText, stored |-> stored,
      submitted |-> submitted, threw |-> FALSE]

\* updateUI: the texts it writes are not modelled, its getHighScore() call is
updateUI(g) == [g EXCEPT !.threw = g.threw \/ getHighScore(g.stored).threw]

\* the do-while of createAsteroids repeats while this holds
tooClose(x, y, s) == Abs(x - s.x) < spawnClearance /\ Abs(y - s.y) < spawnClearance

\* the positions the rejection loop of createAsteroids can end with
spawnPositions(e, s) ==
    {p \in e.randX \X e.randY : ~tooClose(p[1], p[2], s)}

\* variant: the clearance is measured from the canvas centre
createAsteroids_fromCentre(e, s, lv) ==
    {[i \in 1..(baseAsteroids + lv) |-> Asteroid(f[i][1][1], f[i][1][2], "large", f[i][2])] :
        f \in [1..(baseAsteroids + lv) ->
                 spawnPositions(e, [x |-> e.canvas.x \div 2, y |-> e.canvas.y \div 2]) \X e.fieldVel]}

\* createAsteroids: every field of 4 + level large asteroids the random draws allow
createAsteroids(e, s, lv) ==
    {[i \in 1..(baseAsteroids + lv) |-> Asteroid(f[i][1][1], f[i][1][2], "large", f[i][2])] :
        f \in [1..(baseAsteroids + lv) -> spawnPositions(e, s) \X e.fieldVel]}

centre(size) == [x |-> size.x \div 2, y |-> size.y \div 2]

startGame(g) == [g EXCEPT !.state = "PLAYING", !.statusText = "PLAYING"]

pauseGame(g) == [g EXCEPT !.state = "PAUSED", !.statusText = "PAUSED"]

\* variant: resuming also re-arms the gun
resumeGame_rearm(g) == [g EXCEPT !.state = "PLAYING", !.statusText = "PLAYING", !.fireDelay = 0]

resumeGame(g) == [g EXCEPT !.state = "PLAYING", !.statusText = "PLAYING"]

\* variant: the ship of the finished game is kept
setupGame_keepShip(g, size, field) == updateUI([g EXCEPT !.asteroids = field])

\* setupGame: a new ship at the canvas centre and a new field
setupGame(g, size, field) ==
    updateUI([g EXCEPT !.ship = Ship(centre(size).x, centre(size).y), !.asteroids = field])

\* variant: a restart that keeps the score of the game before
resetGame_keepScore(g, size, field) ==
    setupGame([g EXCEPT !.lives = startLives, !.level = startLevel,
                        !.state = "READY", !.statusText = "READY",
                        !.bullets = <<>>], size, field)

resetGame(g, size, field) ==
    setupGame([g EXCEPT !.score = 0, !.lives = startLives, !.level = startLevel,
                        !.state = "READY", !.statusText = "READY",
                        !.bullets = <<>>], size, field)

fireBullet(g) ==
    [g EXCEPT !.bullets = Append(g.bullets, Bullet(g.ship.x, g.ship.y, g.ship.rotation))]

\* variant: the cooldown runs only while fire is held
handleInput_heldOnly(g, ks, dt) ==
    IF g.state # "PLAYING" THEN g
    ELSE LET s1 == Ship_setThrust(g.ship, IF isThrustPressed(ks) THEN 1 ELSE 0)
             s2 == IF isLeftPressed(ks) THEN Ship_rotate(s1, -1) ELSE s1
             s3 == IF isRightPressed(ks) THEN Ship_rotate(s2, 1) ELSE s2
             g1 == [g EXCEPT !.ship = s3,
                             !.fireDelay = IF isFirePressed(ks) THEN g.fireDelay - dt
                                           ELSE g.fireDelay]
         IN  IF isFirePressed(ks) /\ g1.fireDelay <= 0
             THEN [fireBullet(g1) EXCEPT !.fireDelay = maxFireDelay]
             ELSE g1

\* variant: firing does not restart the cooldown
handleInput_noCooldown(g, ks, dt) ==
    IF g.state # "PLAYING" THEN g
    ELSE LET s1 == Ship_setThrust(g.ship, IF isThrustPressed(ks) THEN 1 ELSE 0)
             s2 == IF isLeftPressed(ks) THEN Ship_rotate(s1, -1) ELSE s1
             s3 == IF isRightPressed(ks) THEN Ship_rotate(s2, 1) ELSE s2
             g1 == [g EXCEPT !.ship = s3, !.fireDelay = g.fireDelay - dt]
         IN  IF isFirePressed(ks) /\ g1.fireDelay <= 0
             THEN fireBullet(g1)
             ELSE g1

handleInput(g, ks, dt) ==
    IF g.state # "PLAYING" THEN g
    ELSE LET s1 == Ship_setThrust(g.ship, IF isThrustPressed(ks) THEN 1 ELSE 0)
             s2 == IF isLeftPressed(ks) THEN Ship_rotate(s1, -1) ELSE s1
             s3 == IF isRightPressed(ks) THEN Ship_rotate(s2, 1) ELSE s2
             g1 == [g EXCEPT !.ship = s3, !.fireDelay = g.fireDelay - dt]
         IN  IF isFirePressed(ks) /\ g1.fireDelay <= 0
             THEN [fireBullet(g1) EXCEPT !.fireDelay = maxFireDelay]
             ELSE g1

\* the bullets after bullet.update(), before the filter drops the inactive ones
updateBullets(bs, dt, size) == [i \in 1..Len(bs) |-> Bullet_update(bs[i], dt, size)]

\* variant: integration without the state guard
updateGameObjects_unguarded(g, dt, size) ==
    [g EXCEPT
       !.ship = Ship_update(g.ship, dt, size),
       !.asteroids = [i \in 1..Len(g.asteroids) |->
                         Asteroid_update(g.asteroids[i], dt, size)],
       !.bullets = SelectSeq(updateBullets(g.bullets, dt, size), LAMBDA b : b.active)]

updateGameObjects(g, dt, size) ==
    IF g.state # "PLAYING" THEN g
    ELSE [g EXCEPT
            !.ship = Ship_update(g.ship, dt, size),
            !.asteroids = [i \in 1..Len(g.asteroids) |->
                              Asteroid_update(g.asteroids[i], dt, size)],
            !.bullets = SelectSeq(updateBullets(g.bullets, dt, size), LAMBDA b : b.active)]

\* variant: the awards of medium and small exchanged
addScore_swapped(sc, size) ==
    CASE size = "large" -> sc + pointsLarge
      [] size = "medium" -> sc + pointsSmall
      [] size = "small" -> sc + pointsMedium

addScore(sc, size) ==
    CASE size = "large" -> sc + pointsLarge
      [] size = "medium" -> sc + pointsMedium
      [] size = "small" -> sc + pointsSmall

\* variant: a medium asteroid breaks into medium pieces
breakAsteroid_sameSize(asts, a, tape, used) ==
    LET newSize == IF a.size = "large" THEN "medium"
                   ELSE IF a.size = "medium" THEN "medium" ELSE "none"
        n == IF newSize = "none" THEN 0 ELSE numPieces
    IN  asts \o [k \in 1..n |-> Asteroid(a.x, a.y, newSize, tape[used + k])]

\* breakAsteroid: the asteroid list with the pieces of a pushed; tape holds the
\* random velocities of the pieces, taken from position used + 1 on
breakAsteroid(asts, a, tape, used) ==
    LET newSize == IF a.size = "large" THEN "medium"
                   ELSE IF a.size = "medium" THEN "small" ELSE "none"
        n == IF newSize = "none" THEN 0 ELSE numPieces
    IN  asts \o [k \in 1..n |-> Asteroid(a.x, a.y, newSize, tape[used + k])]

(***************************************************************************)
(* checkCollisions.  The pass state p holds the collections and the score  *)
(* as the loops change them, and the log the properties read:              *)
(*   examined - the bullets the outer loop read, in order of reading       *)
(*   killed   - the asteroids destroyed, in order, each with its index,    *)
(*              its bullet and the bullet's index (slot)                   *)
(*   used     - how many random velocities the pieces have drawn           *)
(* Indices are 1-based: the code's i and j are i - 1 and j - 1 here.       *)
(***************************************************************************)
\* variant: the bullet that hits is not spliced out
hit_keepBullet(p, i, j, tape) ==
    LET bullet == p.bullets[i]
        asteroid == p.asteroids[j]
    IN  [p EXCEPT
           !.asteroids = breakAsteroid(RemoveAt(p.asteroids, j), asteroid, tape, p.used),
           !.score = addScore(p.score, asteroid.size),
           !.threw = p.threw \/ getHighScore(p.stored).threw,
           !.killed = Append(p.killed, [asteroid |-> asteroid, index |-> j,
                                        by |-> bullet, slot |-> i]),
           !.used = p.used + (IF asteroid.size = "small" THEN 0 ELSE numPieces)]

\* the body of "if (bullet.collidesWith(asteroid))": both splices, the score
\* (addScore ends with updateUI), the pieces
hit(p, i, j, tape) ==
    LET bullet == p.bullets[i]
        asteroid == p.asteroids[j]
    IN  [p EXCEPT
           !.bullets = RemoveAt(p.bullets, i),
           !.asteroids = breakAsteroid(RemoveAt(p.asteroids, j), asteroid, tape, p.used),
           !.score = addScore(p.score, asteroid.size),
           !.threw = p.threw \/ getHighScore(p.stored).threw,
           !.killed = Append(p.killed, [asteroid |-> asteroid, index |-> j,
                                        by |-> bullet, slot |-> i]),
           !.used = p.used + (IF asteroid.size = "small" THEN 0 ELSE numPieces)]

\* the inner loop from index j down, for the bullet at index i; a hit breaks out
RECURSIVE scanAsteroids(_, _, _, _)
scanAsteroids(p, i, j, tape) ==
    IF j < 1 THEN p
    ELSE IF collidesWith(p.bullets[i], p.asteroids[j])
         THEN hit(p, i, j, tape)
         ELSE scanAsteroids(p, i, j - 1, tape)

\* the outer loop from index i down
RECURSIVE scanBullets(_, _, _)
scanBullets(p, i, tape) ==
    IF i < 1 THEN p
    ELSE LET p1 == [p EXCEPT !.examined = Append(p.examined, p.bullets[i])]
         IN  scanBullets(scanAsteroids(p1, i, Len(p1.asteroids), tape), i - 1, tape)

\* the bullet-asteroid pass of checkCollisions
bulletPass(g, tape) ==
    scanBullets([bullets |-> g.bullets, asteroids |-> g.asteroids, score |-> g.score,
                 stored |-> g.stored, threw |-> g.threw,
                 examined |-> <<>>, killed |-> <<>>, used |-> 0],
                Len(g.bullets), tape)

gameOver(g) ==
    LET r == HighScoreManager_addScore(g.stored, g.score, g.level)
    IN  [g EXCEPT !.state = "GAME_OVER",
                  !.statusText = IF r.result THEN "NEW HIGH SCORE!" ELSE "GAME OVER",
                  !.stored = r.stored,
                  !.threw = g.threw \/ r.threw,
                  !.submitted = Append(g.submitted, [score |-> g.score, level |-> g.level])]

\* variant: the respawn keeps the ship's heading
loseLife_keepHeading(g, size) ==
    LET g1 == updateUI([g EXCEPT !.lives = g.lives - 1])
    IN  IF g1.lives <= 0 THEN gameOver(g1)
        ELSE [g1 EXCEPT !.ship.x = centre(size).x, !.ship.y = centre(size).y,
                        !.ship.vx = 0, !.ship.vy = 0]

\* variant: the game ends one collision too late
loseLife_lateGameOver(g, size) ==
    LET g1 == updateUI([g EXCEPT !.lives = g.lives - 1])
    IN  IF g1.lives < 0 THEN gameOver(g1)
        ELSE [g1 EXCEPT !.ship.x = centre(size).x, !.ship.y = centre(size).y,
                        !.ship.vx = 0, !.ship.vy = 0, !.ship.rotation = 0]

\* variant: losing a life sweeps the asteroids away
loseLife_clearField(g, size) ==
    LET g1 == updateUI([g EXCEPT !.lives = g.lives - 1, !.asteroids = <<>>])
    IN  IF g1.lives <= 0 THEN gameOver(g1)
        ELSE [g1 EXCEPT !.ship.x = centre(size).x, !.ship.y = centre(size).y,
                        !.ship.vx = 0, !.ship.vy = 0, !.ship.rotation = 0]

loseLife(g, size) ==
    LET g1 == updateUI([g EXCEPT !.lives = g.lives - 1])
    IN  IF g1.lives <= 0 THEN gameOver(g1)
        ELSE [g1 EXCEPT !.ship.x = centre(size).x, !.ship.y = centre(size).y,
                        !.ship.vx = 0, !.ship.vy = 0, !.ship.rotation = 0]

\* variant: the ship-asteroid loop without the break
RECURSIVE shipPass_noBreak(_, _, _)
shipPass_noBreak(g, k, size) ==
    IF k > Len(g.asteroids) THEN g
    ELSE IF collidesWith(g.ship, g.asteroids[k])
         THEN shipPass_noBreak(loseLife(g, size), k + 1, size)
         ELSE shipPass_noBreak(g, k + 1, size)

\* variant: the asteroid that hits the ship is destroyed with it
RECURSIVE shipPass_destroys(_, _, _)
shipPass_destroys(g, k, size) ==
    IF k > Len(g.asteroids) THEN g
    ELSE IF collidesWith(g.ship, g.asteroids[k])
         THEN loseLife([g EXCEPT !.asteroids = RemoveAt(g.asteroids, k)], size)
         ELSE shipPass_destroys(g, k + 1, size)

\* the ship-asteroid loop from index k up; the first hit loses a life and breaks out
RECURSIVE shipPass(_, _, _)
shipPass(g, k, size) ==
    IF k > Len(g.asteroids) THEN g
    ELSE IF collidesWith(g.ship, g.asteroids[k])
         THEN loseLife(g, size)
         ELSE shipPass(g, k + 1, size)

nextLevel(g, field) == updateUI([g EXCEPT !.level = g.level + 1, !.asteroids = field])

\* variant: the new field is sized before the level is incremented
levelFields_oldLevel(e, g) ==
    IF Len(g.asteroids) = 0 THEN createAsteroids(e, g.ship, g.level) ELSE {<<>>}

\* the fields nextLevel can create for g (one dummy when the level is not complete)
levelFields(e, g) ==
    IF Len(g.asteroids) = 0 THEN createAsteroids(e, g.ship, g.level + 1) ELSE {<<>>}

\* "if (this.asteroids.length === 0) this.nextLevel()"
levelCheck(g, field) == IF Len(g.asteroids) = 0 THEN nextLevel(g, field) ELSE g

\* the game after the two collision passes, before the level check
collisionPasses(g, size, tape) ==
    LET p == bulletPass(g, tape)
    IN  shipPass([g EXCEPT !.bullets = p.bullets, !.asteroids = p.asteroids,
                           !.score = p.score, !.threw = p.threw], 1, size)

checkCollisions(g, size, tape, field) ==
    IF g.state # "PLAYING" THEN g
    ELSE levelCheck(collisionPasses(g, size, tape), field)

\* render: of what it does only the isHighScore() call of the GAME_OVER banner
\* is modelled
render(g) ==
    IF g.state = "GAME_OVER"
    THEN [g EXCEPT !.threw = g.threw \/ isHighScore(g.stored, g.score).threw]
    ELSE g

\* the text render draws in the middle of the canvas
bannerText(g) ==
    CASE g.state = "READY" -> "PRESS SPACE TO START"
      [] g.state = "PAUSED" -> "PAUSED"
      [] g.state = "GAME_OVER" ->
            IF isHighScore(g.stored, g.score).value THEN "NEW HIGH SCORE!" ELSE "GAME OVER"
      [] OTHER -> ""

\* the random velocities one bullet pass over g draws: two per large or medium
\* asteroid destroyed (which asteroids are hit does not depend on the velocities)
tapes(e, g) ==
    LET any == CHOOSE v \in e.pieceVel : TRUE
        n == IF g.state = "PLAYING"
             THEN bulletPass(g, [k \in 1..(numPieces * Len(g.bullets)) |-> any]).used
             ELSE 0
    IN  [1..n -> e.pieceVel]

(***************************************************************************)
(* The environment of one run: the canvas, the frame times (ms since the   *)
(* previous frame callback), the keys the player uses and the values       *)
(* Math.random() gives: randX, randY are the positions createAsteroids can *)
(* draw, fieldVel the velocities the Asteroid constructor can draw for an  *)
(* asteroid of a new field and pieceVel those for a piece of a broken one; *)
(* fault and valid are how localStorage fails and whether its item parses. *)
(* A run draws all its inputs from one of the environments below; env      *)
(* never changes.                                                          *)
(*   Shoot  - fire held, short frames: asteroids rise and fall on the      *)
(*            ship's line of fire and are shot to pieces                   *)
(*   Crash  - long frames carry asteroids into the ship until the game     *)
(*            is over and restarted                                        *)
(*   Steer  - the ship turns, thrusts and fires off axis                   *)
(*   Pause  - pause and resume, up to the end of a game                    *)
(*   NoRead, NoWrite, Corrupt - a game played to its end and restarted     *)
(*            on a storage whose getItem throws, whose setItem throws, or  *)
(*            whose item does not parse                                    *)
(*   Field  - a 10 x 240 window, in which the wrap keeps a horizontally    *)
(*            moving asteroid beside the line of fire: a whole level is    *)
(*            shot down and the next one starts; the keys are used in the  *)
(*            first frames only                                            *)
(*   Roam   - the Field window with a pilot who starts the game at once    *)
(*            and can thrust from frame 34 on, so that the level is        *)
(*            cleared by a ship that has left the centre                   *)
(*   Nine, Full - a working storage in which earlier sessions left nine    *)
(*            entries, or ten; the game is started at once                 *)
(***************************************************************************)
Faller == <<0, 100>>
Riser == <<0, -100>>
Drifter == <<100, 0>>

\* a key event can arrive between any two frames
AnyFrame == 0..MaxFieldFrames

\* the key events of a long run arrive in its first frames
EarlyFrames == 0..MaxFrames

EnvShoot ==
    [name |-> "Shoot", fault |-> "none", valid |-> TRUE, prior |-> <<>>, long |-> FALSE, keyFrames |-> AnyFrame, canvas |-> [x |-> 240, y |-> 240],
     dts |-> {0, 150}, keyCodes |-> {"Space"},
     randX |-> {120}, randY |-> {20, 120}, fieldVel |-> {Faller}, pieceVel |-> {Faller, Riser}]

EnvCrash ==
    [name |-> "Crash", fault |-> "none", valid |-> TRUE, prior |-> <<>>, long |-> FALSE, keyFrames |-> AnyFrame, canvas |-> [x |-> 240, y |-> 240],
     dts |-> {150, 1000}, keyCodes |-> {"Space", "ArrowRight"},
     randX |-> {120}, randY |-> {20, 120}, fieldVel |-> {Faller}, pieceVel |-> {Faller}]

EnvSteer ==
    [name |-> "Steer", fault |-> "none", valid |-> TRUE, prior |-> <<>>, long |-> FALSE, keyFrames |-> AnyFrame, canvas |-> [x |-> 240, y |-> 240],
     dts |-> {150}, keyCodes |-> {"Space", "ArrowLeft", "ArrowUp"},
     randX |-> {120}, randY |-> {20, 120}, fieldVel |-> {Faller}, pieceVel |-> {Faller}]

EnvPause ==
    [name |-> "Pause", fault |-> "none", valid |-> TRUE, prior |-> <<>>, long |-> FALSE, keyFrames |-> AnyFrame, canvas |-> [x |-> 240, y |-> 240],
     dts |-> {150, 1000}, keyCodes |-> {"Space", "KeyP"},
     randX |-> {120}, randY |-> {20, 120}, fieldVel |-> {Faller}, pieceVel |-> {Faller}]

EnvField ==
    [name |-> "Field", fault |-> "none", valid |-> TRUE, prior |-> <<>>, long |-> TRUE, keyFrames |-> EarlyFrames, canvas |-> [x |-> 10, y |-> 240],
     dts |-> {150}, keyCodes |-> {"Space"},
     randX |-> {5}, randY |-> {0, 120}, fieldVel |-> {Drifter}, pieceVel |-> {Drifter}]

\* the frames at which the Roam environment delivers key events
RoamKeyFrames == {0, 34}

\* the Field canvas with a pilot who can thrust, and a third random ordinate
EnvRoam ==
    [name |-> "Roam", fault |-> "none", valid |-> TRUE, prior |-> <<>>, long |-> TRUE, keyFrames |-> RoamKeyFrames,
     canvas |-> [x |-> 10, y |-> 240],
     dts |-> {150}, keyCodes |-> {"Space", "ArrowUp"},
     randX |-> {5}, randY |-> {0, 120, 200}, fieldVel |-> {Drifter}, pieceVel |-> {Drifter}]

EnvBroken(name, fault, valid) ==
    [name |-> name, fault |-> fault, valid |-> valid, prior |-> <<>>, long |-> FALSE, keyFrames |-> AnyFrame,
     canvas |-> [x |-> 240, y |-> 240],
     dts |-> {150, 1000}, keyCodes |-> {"Space"},
     randX |-> {120}, randY |-> {20, 120}, fieldVel |-> {Faller}, pieceVel |-> {Faller}]

\* a working storage that holds the list earlier sessions left; the player
\* starts the game at once and the keys are not touched again
EnvStored(name, prior) ==
    [name |-> name, fault |-> "none", valid |-> TRUE, prior |-> prior, long |-> FALSE,
     keyFrames |-> {0}, canvas |-> [x |-> 240, y |-> 240],
     dts |-> {150, 1000}, keyCodes |-> {"Space"},
     randX |-> {120}, randY |-> {20, 120}, fieldVel |-> {Faller}, pieceVel |-> {Faller}]

\* nine entries of 50 points
NineEntries == [i \in 1..9 |-> [score |-> 50, level |-> 1]]

\* ten entries: nine of 50 points and one of 10
TenEntries == NineEntries \o <<[score |-> 10, level |-> 1]>>

EnvNine == EnvStored("Nine", NineEntries)
EnvFull == EnvStored("Full", TenEntries)

EnvNoRead == EnvBroken("NoRead", "read", TRUE)
EnvNoWrite == EnvBroken("NoWrite", "write", TRUE)
EnvCorrupt == EnvBroken("Corrupt", "none", FALSE)

Envs == {EnvShoot, EnvCrash, EnvSteer, EnvPause, EnvField, EnvRoam, EnvNoRead, EnvNoWrite, EnvCorrupt,
         EnvNine, EnvFull}

frameBound(e) == IF e.long THEN MaxFieldFrames ELSE MaxFrames

NoEv ==
    [kind |-> "init", key |-> "", dt |-> 0, threw |-> FALSE,
     wasPlaying |-> FALSE, fired |-> FALSE,
     created |-> 0, gap |-> -1,
     inBullets |-> <<>>, updatedBullets |-> <<>>,
     shipAtPass |-> Ship(0, 0), preBullets |-> <<>>, preAsteroids |-> <<>>,
     examined |-> <<>>, killed |-> <<>>, passBullets |-> <<>>, passAsteroids |-> <<>>,
     overlaps |-> 0, postAsteroids |-> <<>>, postBullets |-> <<>>, postScore |-> 0,
     postLives |-> 0, cleared |-> FALSE, banner |-> "", interval |-> 0, idleBefore |-> 0]

Assign(g) ==
    /\ state' = g.state
    /\ score' = g.score
    /\ lives' = g.lives
    /\ level' = g.level
    /\ fireDelay' = g.fireDelay
    /\ ship' = g.ship
    /\ asteroids' = g.asteroids
    /\ bullets' = g.bullets
    /\ statusText' = g.statusText
    /\ stored' = g.stored
    /\ submitted' = g.submitted

\* the state the constructor and start() leave
Constructed(e) ==
    /\ env = e
    /\ canvasSize = e.canvas
    /\ state = "READY"
    /\ score = 0
    /\ lives = startLives
    /\ level = startLevel
    /\ lastTime = 0
    /\ clock = 0
    /\ idle = 0
    /\ fireDelay = 0
    /\ ship = Ship(centre(e.canvas).x, centre(e.canvas).y)
    /\ asteroids \in createAsteroids(e, Ship(centre(e.canvas).x, centre(e.canvas).y), startLevel)
    /\ bullets = <<>>
    /\ statusText = "READY"
    /\ keys = {}
    /\ stored = [fault |-> e.fault, item |-> [valid |-> e.valid, list |-> e.prior]]
    /\ submitted = <<>>
    /\ frames = 0
    /\ sinceFire = -1
    /\ keyEvents = 0
    /\ pre = G

InitIn(e) == Constructed(e) /\ ev = NoEv

\* What a frame writes to the history.  g1 is the game after handleInput and
\* size the canvas size, g2 is the game after integration, p the
\* bullet-asteroid pass on it and g3 the game after the ship-asteroid pass:
\*   threw         - an exception left a HighScoreManager call of the frame
\*   wasPlaying    - handleInput, updateGameObjects and checkCollisions ran
\*   fired         - handleInput created a bullet
\*   created       - how many bullets handleInput created
\*   gap           - when a bullet was created and one had been before: the
\*                   PLAYING time (ms) from that creation to this one; else -1
\*   inBullets     - the bullets after handleInput
\*   updatedBullets - those bullets after bullet.update(), inactive ones included
\*   shipAtPass, preBullets, preAsteroids - the entities checkCollisions starts with
\*   examined, killed - the log of the bullet-asteroid pass
\*   passBullets, passAsteroids - the collections after the bullet-asteroid pass
\*   overlaps      - how many asteroids collide with the ship after that pass
\*   postAsteroids, postBullets, postScore, postLives - the fields after the
\*                   ship-asteroid pass, when the level check begins
\*   cleared       - the level check found no asteroid
\*   banner        - the text render drew in the middle of the canvas
\*   interval      - the time (ms) from the frame callback before to this one
\*   idleBefore    - the interval (ms) of the frame before if that frame ran
\*                   outside PLAYING, else 0
tickEv(dt, created, gap, threw, playing, g1, size, g2, p, g3) ==
    IF ~playing
    THEN [NoEv EXCEPT !.kind = "tick", !.dt = dt, !.fired = created > 0,
                      !.created = created, !.gap = gap, !.threw = threw]
    ELSE [kind |-> "tick", key |-> "", dt |-> dt, threw |-> threw, wasPlaying |-> TRUE,
          fired |-> created > 0, created |-> created, gap |-> gap,
          inBullets |-> g1.bullets,
          updatedBullets |-> updateBullets(g1.bullets, dt, size),
          shipAtPass |-> g2.ship,
          preBullets |-> g2.bullets,
          preAsteroids |-> g2.asteroids,
          examined |-> p.examined,
          killed |-> p.killed,
          passBullets |-> p.bullets,
          passAsteroids |-> p.asteroids,
          overlaps |-> Cardinality({k \in 1..Len(p.asteroids) :
                                       collidesWith(g2.ship, p.asteroids[k])}),
          postAsteroids |-> g3.asteroids,
          postBullets |-> g3.bullets,
          postScore |-> g3.score,
          postLives |-> g3.lives,
          cleared |-> Len(g3.asteroids) = 0,
          banner |-> "", interval |-> 0, idleBefore |-> 0]

\* "const deltaTime = (currentTime - this.lastTime) / 1000", in ms
update_deltaTime(currentTime, last) == currentTime - last

\* variant: the timestamp is recorded only while the game is played
update_lastTime_whilePlaying(g, last, currentTime) ==
    IF g.state = "PLAYING" THEN currentTime ELSE last

\* "this.lastTime = currentTime", whatever the state of the game g
update_lastTime(g, last, currentTime) == currentTime

\* variant: a frame that integrates before it handles the input
Tick_inputLast ==
    /\ frames < frameBound(env)
    /\ \E interval \in env.dts, g0 \in {G} :
       \E currentTime \in {clock + interval} :
       \E dt \in {update_deltaTime(currentTime, lastTime)} :
       \E g1 \in {updateGameObjects(g0, dt, canvasSize)} :
       \E g2 \in {handleInput(g1, keys, dt)} :
       \E tape \in tapes(env, g2) :
       \E p \in {bulletPass(g2, tape)} :
       \E g3 \in {IF g2.state = "PLAYING" THEN collisionPasses(g2, canvasSize, tape) ELSE g2} :
       \E field \in (IF g2.state = "PLAYING" THEN levelFields(env, g3) ELSE {<<>>}) :
       \E g4 \in {render(checkCollisions(g2, canvasSize, tape, field))} :
          /\ Assign(g4)
          /\ lastTime' = update_lastTime(g0, lastTime, currentTime)
          /\ clock' = currentTime
          /\ idle' = IF g0.state = "PLAYING" THEN 0 ELSE interval
          /\ frames' = frames + 1
          /\ pre' = g0
          /\ \E created \in {Len(g2.bullets) - Len(g1.bullets)} :
                /\ sinceFire' = IF created > 0 THEN 0
                                ELSE IF g0.state = "PLAYING" /\ sinceFire >= 0
                                     THEN sinceFire + dt
                                     ELSE sinceFire
                /\ ev' = [tickEv(dt, created,
                                 IF created > 0 /\ sinceFire >= 0 THEN sinceFire + dt ELSE -1,
                                 g4.threw, g2.state = "PLAYING", g1, canvasSize, g2, p, g3)
                          EXCEPT !.banner = bannerText(g4), !.interval = interval,
                                 !.idleBefore = idle]
          /\ UNCHANGED <<keys, canvasSize, keyEvents, env>>

\* Game.update(currentTime), called interval ms after the frame callback
\* before: one frame
\* (handleInput, updateGameObjects, checkCollisions, render)
Tick ==
    /\ frames < frameBound(env)
    /\ \E interval \in env.dts, g0 \in {G} :
       \E currentTime \in {clock + interval} :
       \E dt \in {update_deltaTime(currentTime, lastTime)} :
       \E g1 \in {handleInput(g0, keys, dt)} :
       \E g2 \in {updateGameObjects(g1, dt, canvasSize)} :
       \E tape \in tapes(env, g2) :
       \E p \in {bulletPass(g2, tape)} :
       \E g3 \in {IF g2.state = "PLAYING" THEN collisionPasses(g2, canvasSize, tape) ELSE g2} :
       \E field \in (IF g2.state = "PLAYING" THEN levelFields(env, g3) ELSE {<<>>}) :
       \E g4 \in {render(checkCollisions(g2, canvasSize, tape, field))} :
          /\ Assign(g4)
          /\ lastTime' = update_lastTime(g0, lastTime, currentTime)
          /\ clock' = currentTime
          /\ idle' = IF g0.state = "PLAYING" THEN 0 ELSE interval
          /\ frames' = frames + 1
          /\ pre' = g0
          /\ \E created \in {Len(g1.bullets) - Len(g0.bullets)} :
                /\ sinceFire' = IF created > 0 THEN 0
                                ELSE IF g0.state = "PLAYING" /\ sinceFire >= 0
                                     THEN sinceFire + dt
                                     ELSE sinceFire
                /\ ev' = [tickEv(dt, created,
                                 IF created > 0 /\ sinceFire >= 0 THEN sinceFire + dt ELSE -1,
                                 g4.threw, g2.state = "PLAYING", g1, canvasSize, g2, p, g3)
                          EXCEPT !.banner = bannerText(g4), !.interval = interval,
                                 !.idleBefore = idle]
          /\ UNCHANGED <<keys, canvasSize, keyEvents, env>>

\* variant: KeyP pauses from every state but PAUSED
onKeyDown_pauseAnywhere(g, key, size, field) ==
    IF key = "Space"
    THEN IF g.state = "READY" THEN startGame(g)
         ELSE IF g.state = "GAME_OVER" THEN resetGame(g, size, field)
         ELSE g
    ELSE IF key = "KeyP"
    THEN IF g.state = "PAUSED" THEN resumeGame(g) ELSE pauseGame(g)
    ELSE g

\* the handlers setupInputHandlers registers
onKeyDown(g, key, size, field) ==
    IF key = "Space"
    THEN IF g.state = "READY" THEN startGame(g)
         ELSE IF g.state = "GAME_OVER" THEN resetGame(g, size, field)
         ELSE g
    ELSE IF key = "KeyP"
    THEN IF g.state = "PLAYING" THEN pauseGame(g)
         ELSE IF g.state = "PAUSED" THEN resumeGame(g)
         ELSE g
    ELSE g

\* a keydown event (also the auto-repeat of a key that is held)
KeyDown ==
    /\ keyEvents < MaxKeyEvents
    /\ frames \in env.keyFrames
    /\ \E key \in env.keyCodes :
         \E field \in (IF key = "Space" /\ state = "GAME_OVER"
                       THEN createAsteroids(env, Ship(centre(canvasSize).x, centre(canvasSize).y), startLevel)
                       ELSE {<<>>}) :
         \E g1 \in {onKeyDown(G, key, canvasSize, field)} :
            /\ Assign(g1)
            /\ keys' = keys \cup {key}
            /\ keyEvents' = keyEvents + 1
            /\ pre' = G
            /\ ev' = [NoEv EXCEPT !.kind = "keydown", !.key = key, !.threw = g1.threw]
            /\ UNCHANGED <<lastTime, canvasSize, frames, sinceFire, clock, idle, env>>

\* a keyup event
KeyUp ==
    /\ keyEvents < MaxKeyEvents
    /\ frames \in env.keyFrames
    /\ \E key \in keys :
            /\ keys' = keys \ {key}
            /\ keyEvents' = keyEvents + 1
            /\ pre' = G
            /\ ev' = [NoEv EXCEPT !.kind = "keyup", !.key = key]
            /\ UNCHANGED <<clock, idle, state, score, lives, level, lastTime, fireDelay, ship,
                           asteroids, bullets, statusText, canvasSize, stored,
                           submitted, frames, sinceFire, env>>

Init == \E e \in Envs : InitIn(e)

Next == Tick \/ KeyDown \/ KeyUp

Spec == Init /\ [][Next]_vars

(***************************************************************************)
(* The pure functions called on their own: a run of SpecCalls starts from  *)
(* the constructed game with the arguments of one call, drawn from bounded *)
(* sets, in ev, and makes the call; ev then holds the result too.  A run   *)
(* that starts with an addScore call goes on with further addScore calls   *)
(* on the store; an entry's level is the number of the call, which tells   *)
(* entries of one score apart.                                             *)
(***************************************************************************)
Shapes ==
    {Ship(0, 0), Bullet(0, 0, 0), Asteroid(0, 0, "large", <<0, 0>>),
     Asteroid(0, 0, "medium", <<0, 0>>), Asteroid(0, 0, "small", <<0, 0>>)}

WrapArgs ==
    {[kind |-> "wrapPosition", done |-> FALSE, arg |-> Ship(x, y),
      size |-> [x |-> bx, y |-> by]] :
        bx \in 0..MaxBound, by \in 0..MaxBound,
        x \in (-2)..(MaxBound + 2), y \in (-2)..(MaxBound + 2)}

CollideArgs ==
    {[kind |-> "collidesWith", done |-> FALSE, a |-> [a EXCEPT !.x = x, !.y = y],
      b |-> b] :
        a \in Shapes, b \in Shapes, x \in 0..MaxDist, y \in 0..MaxDist}

Untouched ==
    UNCHANGED <<clock, idle, state, score, lives, level, lastTime, fireDelay, ship, asteroids,
                bullets, statusText, keys, canvasSize, stored, submitted, frames,
                sinceFire, keyEvents, env, pre>>

WrapCall ==
    /\ ev.kind = "wrapPosition" /\ ~ev.done
    /\ ev' = [kind |-> "wrapPosition", done |-> TRUE, arg |-> ev.arg, size |-> ev.size,
              result |-> wrapPosition(ev.arg, ev.size)]
    /\ Untouched

CollideCall ==
    /\ ev.kind = "collidesWith" /\ ~ev.done
    /\ ev' = [kind |-> "collidesWith", done |-> TRUE, a |-> ev.a, b |-> ev.b,
              result |-> collidesWith(ev.a, ev.b),
              mirrored |-> collidesWith(ev.b, ev.a)]
    /\ Untouched

ScoreValues == {1, 2}

SubmitArgs == {[kind |-> "addScore", done |-> FALSE, score |-> 0, would |-> FALSE,
                result |-> FALSE]}

SubmitCall ==
    /\ ev.kind = "addScore"
    /\ Len(submitted) < MaxSubmits
    /\ \E sc \in ScoreValues :
       \E r \in {HighScoreManager_addScore(stored, sc, Len(submitted) + 1)} :
          /\ stored' = r.stored
          /\ submitted' = Append(submitted, [score |-> sc, level |-> Len(submitted) + 1])
          /\ pre' = G
          /\ ev' = [kind |-> "addScore", done |-> TRUE, score |-> sc,
                    would |-> isHighScore(stored, sc).value, result |-> r.result]
    /\ UNCHANGED <<clock, idle, state, score, lives, level, lastTime, fireDelay, ship, asteroids,
                   bullets, statusText, keys, canvasSize, frames, sinceFire,
                   keyEvents, env>>

CallsInit == Constructed(EnvShoot) /\ ev \in WrapArgs \cup CollideArgs \cup SubmitArgs

CallsNext == WrapCall \/ CollideCall \/ SubmitCall

SpecCalls == CallsInit /\ [][CallsNext]_vars

(***************************************************************************)
(* Properties.  pre holds the Game's fields when the last handler began    *)
(* and ev what that handler was, so a state predicate over pre, ev and the *)
(* current fields is a statement about every step.                         *)
(***************************************************************************)
AllowedTransitions ==
    {<<"READY", "PLAYING">>, <<"PLAYING", "PAUSED">>, <<"PAUSED", "PLAYING">>,
     <<"PLAYING", "GAME_OVER">>, <<"GAME_OVER", "READY">>}

SpaceDown == ev.kind = "keydown" /\ ev.key = "Space"
PauseDown == ev.kind = "keydown" /\ ev.key = "KeyP"
IdleTick == ev.kind = "tick" /\ pre.state # "PLAYING"
PlayingTick == ev.kind = "tick" /\ pre.state = "PLAYING"

\* C1: the game starts in READY; the state changes only READY -> PLAYING,
\* PLAYING -> PAUSED, PAUSED -> PLAYING, PLAYING -> GAME_OVER and
\* GAME_OVER -> READY; and PLAYING -> GAME_OVER happens only in a tick in which
\* lives reaches 0.
C1_StateMachine ==
    /\ ev.kind = "init" => state = "READY"
    /\ state # pre.state => <<pre.state, state>> \in AllowedTransitions
    /\ (pre.state = "PLAYING" /\ state = "GAME_OVER")
          => (ev.kind = "tick" /\ pre.lives > 0 /\ lives = 0)

\* a game has been played to its end and restarted
C1_Witness ==
    /\ state = "READY" /\ pre.state = "GAME_OVER"
    /\ Len(submitted) = 1 /\ frames >= 3

\* C2: a Space key-down in READY moves to PLAYING; in GAME_OVER it resets the
\* session counters (score 0, lives 3, level 1) and moves to READY; in PLAYING
\* or PAUSED it changes neither the state nor score, lives or level.
C2_Space ==
    SpaceDown =>
        /\ pre.state = "READY" => state = "PLAYING"
        /\ pre.state = "GAME_OVER"
              => (state = "READY" /\ score = 0 /\ lives = 3 /\ level = 1)
        /\ pre.state \in {"PLAYING", "PAUSED"}
              => (state = pre.state /\ score = pre.score /\ lives = pre.lives
                  /\ level = pre.level)

\* Space restarts a finished game that had scored
C2_Witness ==
    /\ SpaceDown /\ pre.state = "GAME_OVER" /\ pre.score > 0 /\ pre.lives = 0
    /\ state = "READY"

\* C3: a P key-down takes PLAYING to PAUSED and PAUSED to PLAYING and is no
\* change of state from READY or GAME_OVER; in every case score, lives, level,
\* ship, asteroids, bullets and the fire cooldown stay as they were.
C3_Pause ==
    PauseDown =>
        /\ pre.state = "PLAYING" => state = "PAUSED"
        /\ pre.state = "PAUSED" => state = "PLAYING"
        /\ pre.state \in {"READY", "GAME_OVER"} => state = pre.state
        /\ score = pre.score /\ lives = pre.lives /\ level = pre.level
        /\ ship = pre.ship /\ asteroids = pre.asteroids /\ bullets = pre.bullets
        /\ fireDelay = pre.fireDelay

\* a paused game with a bullet in flight and the gun cooling is resumed
C3_Witness ==
    /\ PauseDown /\ pre.state = "PAUSED" /\ state = "PLAYING"
    /\ Len(bullets) > 0 /\ fireDelay > 0

\* C4: a tick that begins in READY, PAUSED or GAME_OVER changes nothing: ship,
\* asteroids, bullets (lifetime included), fire cooldown, score, lives, level
\* and state are as before, whatever keys are held and whatever deltaTime.
C4_IdleTick ==
    IdleTick =>
        /\ state = pre.state /\ score = pre.score /\ lives = pre.lives
        /\ level = pre.level /\ fireDelay = pre.fireDelay
        /\ ship = pre.ship /\ asteroids = pre.asteroids /\ bullets = pre.bullets

\* a frame of positive length passes in PAUSED with a bullet in flight and keys held
C4_Witness ==
    /\ IdleTick /\ pre.state = "PAUSED" /\ ev.dt > 0
    /\ Len(bullets) > 0 /\ "Space" \in keys /\ fireDelay > 0

\* C5: in a PLAYING tick lives goes down by exactly 1 if the ship collides with
\* at least one asteroid after the bullet pass, however many it overlaps, and
\* does not change otherwise; the ship pass removes no asteroid.
C5_OneLifePerTick ==
    PlayingTick =>
        /\ lives = pre.lives - (IF ev.overlaps >= 1 THEN 1 ELSE 0)
        /\ ev.postAsteroids = ev.passAsteroids

\* the ship overlaps several asteroids after a bullet pass that destroyed one
C5_Witness ==
    /\ PlayingTick /\ ev.overlaps >= 2 /\ Len(ev.killed) >= 1
    /\ lives = pre.lives - 1 /\ lives >= 1

\* C6: when a life is lost and lives reaches 0 the state becomes GAME_OVER and
\* the final score and level are submitted to the high-score store, and there
\* is no other submission; when lives stays positive the state stays PLAYING,
\* the ship is at the canvas centre with velocity (0, 0) and rotation 0, and
\* asteroids and bullets are as the bullet pass left them.
C6_LoseLife ==
    /\ (PlayingTick /\ lives < pre.lives /\ lives = 0)
          => /\ state = "GAME_OVER"
             /\ submitted = Append(pre.submitted, [score |-> score, level |-> level])
    /\ (PlayingTick /\ lives < pre.lives /\ lives > 0)
          => /\ state = "PLAYING"
             /\ 2 * ship.x = canvasSize.x /\ 2 * ship.y = canvasSize.y
             /\ ship.vx = 0 /\ ship.vy = 0 /\ ship.rotation = 0
             /\ asteroids = ev.passAsteroids /\ bullets = ev.passBullets
    /\ ~(PlayingTick /\ lives < pre.lives /\ lives = 0)
          => submitted = pre.submitted

\* a ship that had turned and moved off the centre is put back, bullets in flight
C6_Witness ==
    /\ PlayingTick /\ lives < pre.lives /\ lives >= 1
    /\ ev.shipAtPass.rotation # 0 /\ ev.shipAtPass.vy # 0
    /\ 2 * ev.shipAtPass.y # canvasSize.y /\ Len(bullets) > 0

Points(size) ==
    CASE size = "large" -> 20
      [] size = "medium" -> 50
      [] size = "small" -> 100

RECURSIVE Awards(_)
Awards(killed) ==
    IF killed = <<>> THEN 0
    ELSE Points(killed[1].asteroid.size) + Awards(Tail(killed))

\* C7: each destroyed asteroid adds 20 (large), 50 (medium) or 100 (small); the
\* score increase of a tick is the sum of the awards of the asteroids destroyed
\* in it; the score changes in no other way, except that a restart sets it to 0.
C7_Score ==
    /\ PlayingTick => score = pre.score + Awards(ev.killed)
    /\ ~PlayingTick
          => (score = pre.score
              \/ (SpaceDown /\ pre.state = "GAME_OVER" /\ score = 0))

\* one tick destroys asteroids of two sizes
C7_Witness ==
    /\ PlayingTick /\ pre.score > 0
    /\ \E a, b \in 1..Len(ev.killed) :
          ev.killed[a].asteroid.size # ev.killed[b].asteroid.size

\* the bag of (size, x, y) of a sequence of asteroids
Key(a) == <<a.size, a.x, a.y>>
BagOf(asts) ==
    [k \in {Key(asts[i]) : i \in 1..Len(asts)} |->
        Cardinality({i \in 1..Len(asts) : Key(asts[i]) = k})]

PieceSize(size) == IF size = "large" THEN "medium" ELSE "small"

\* the pieces due for the asteroids destroyed: two of the next size down at the
\* position of each large or medium one
RECURSIVE Pieces(_)
Pieces(killed) ==
    IF killed = <<>> THEN EmptyBag
    ELSE LET a == killed[1].asteroid
         IN  IF a.size = "small" THEN Pieces(Tail(killed))
             ELSE Pieces(Tail(killed))
                  (+) [k \in {<<PieceSize(a.size), a.x, a.y>>} |-> 2]

\* C8: a destroyed large asteroid is replaced by exactly 2 medium asteroids at
\* its position, a medium one by exactly 2 small ones at its position, a small
\* one by nothing; the destroyed asteroid is no longer in the collection.
C8_Split ==
    PlayingTick =>
        BagOf(ev.passAsteroids)
          = (BagOf(ev.preAsteroids) (+) Pieces(ev.killed))
            (-) BagOf([k \in 1..Len(ev.killed) |-> ev.killed[k].asteroid])

\* a medium asteroid is destroyed while asteroids of other sizes are around
C8_Witness ==
    /\ PlayingTick
    /\ \E k \in 1..Len(ev.killed) : ev.killed[k].asteroid.size = "medium"
    /\ \E i, j \in 1..Len(ev.passAsteroids) :
          /\ ev.passAsteroids[i].size = "large"
          /\ ev.passAsteroids[j].size = "small"

Reverse(s) == [k \in 1..Len(s) |-> s[Len(s) + 1 - k]]

\* the sequence s without the elements at the indices in drop
Without(s, drop) ==
    LET idx == SelectSeq([k \in 1..Len(s) |-> k], LAMBDA k : k \notin drop)
    IN  [m \in 1..Len(idx) |-> s[idx[m]]]

\* C9: the bullet pass examines every bullet present at its start exactly once;
\* a bullet destroys at most one asteroid; a bullet that hits is removed
\* together with its asteroid and one that hits nothing stays; the number of
\* bullets removed equals the number of asteroids destroyed.
C9_BulletPass ==
    PlayingTick =>
        LET n == Len(ev.preBullets)
            hitters == {ev.killed[k].slot : k \in 1..Len(ev.killed)}
        IN  /\ ev.examined = Reverse(ev.preBullets)
            /\ \A k \in 1..Len(ev.killed) :
                  /\ ev.killed[k].slot \in 1..n
                  /\ ev.killed[k].by = ev.preBullets[ev.killed[k].slot]
            /\ \A k, l \in 1..Len(ev.killed) :
                  k # l => ev.killed[k].slot # ev.killed[l].slot
            /\ ev.passBullets = Without(ev.preBullets, hitters)
            /\ n - Len(ev.passBullets) = Len(ev.killed)

\* of several bullets one that is not the newest hits and another flies on
C9_Witness ==
    /\ PlayingTick /\ Len(ev.preBullets) >= 3 /\ Len(ev.passBullets) >= 1
    /\ \E k \in 1..Len(ev.killed) : ev.killed[k].slot < Len(ev.preBullets)

\* C10: when the passes of a PLAYING tick leave no asteroid, the same tick
\* raises level by exactly 1 and creates exactly 4 + (the new level) large
\* asteroids, and that leaves score, lives and bullets unchanged; level does
\* not change in any other tick; the asteroid collection is never empty at
\* the end of a tick.
C10_NextLevel ==
    /\ Len(asteroids) > 0
    /\ (PlayingTick /\ ev.cleared)
          => /\ level = pre.level + 1
             /\ Len(asteroids) = 4 + level
             /\ \A i \in 1..Len(asteroids) : asteroids[i].size = "large"
             /\ score = ev.postScore /\ lives = ev.postLives
             /\ bullets = ev.postBullets
    /\ (ev.kind = "tick" /\ ~ev.cleared) => level = pre.level

\* the last asteroid of level 1 is shot and level 2 begins with six
C10_Witness ==
    /\ PlayingTick /\ ev.cleared /\ Len(ev.killed) >= 1
    /\ level = 2 /\ Len(asteroids) = 6 /\ score > pre.score

\* C11: a tick creates at most one bullet; two successive bullet creations are
\* separated by PLAYING ticks whose deltaTimes sum to at least 0.15 s (150 ms);
\* a tick that begins outside PLAYING, or in which the cooldown is still above
\* 0 after the tick's decrement, or with fire not held, creates no bullet; and
\* no keyboard handler creates one.
C11_FireRate ==
    /\ ev.kind = "tick" =>
          /\ ev.created \in {0, 1}
          /\ (ev.created = 1 /\ ev.gap # -1) => ev.gap >= 150
          /\ (pre.state # "PLAYING" \/ pre.fireDelay - ev.dt > 0 \/ "Space" \notin keys)
                => ev.created = 0
    /\ ev.kind \in {"keydown", "keyup"} => Len(bullets) <= Len(pre.bullets)

\* with fire held a second bullet is created once 150 ms of play have passed,
\* zero-length frames in between having created none
C11_Witness ==
    /\ ev.kind = "tick" /\ ev.created = 1 /\ ev.gap = 150
    /\ frames >= 4 /\ Len(bullets) >= 2 /\ lastTime = 300

\* C12: after a restart (Space in GAME_OVER) score = 0, lives = 3, level = 1,
\* state = READY, there is no bullet, the ship is a new ship at the canvas
\* centre with zero velocity and zero rotation, and there are exactly 5
\* asteroids, all large.
C12_Restart ==
    (SpaceDown /\ pre.state = "GAME_OVER") =>
        /\ score = 0 /\ lives = 3 /\ level = 1 /\ state = "READY"
        /\ bullets = <<>>
        /\ 2 * ship.x = canvasSize.x /\ 2 * ship.y = canvasSize.y
        /\ ship.vx = 0 /\ ship.vy = 0 /\ ship.rotation = 0 /\ ship.thrust = 0
        /\ ship.active
        /\ Len(asteroids) = 5
        /\ \A i \in 1..Len(asteroids) : asteroids[i].size = "large"

\* the game restarted had a turned ship, bullets in flight, a score and a
\* field that was no longer five large asteroids
C12_Witness ==
    /\ SpaceDown /\ pre.state = "GAME_OVER" /\ state = "READY"
    /\ pre.ship.rotation # 0 /\ Len(pre.bullets) > 0 /\ pre.score > 0
    /\ Len(pre.asteroids) > 5

\* what the screen wrap is to do with one coordinate
WrapOk(p, bound, q) ==
    /\ (p = 0 \/ p = bound) => q = p
    /\ p < 0 => q = bound
    /\ p > bound => q = 0
    /\ (0 <= p /\ p <= bound) => q = p

\* C13: on each axis the screen wrap leaves a coordinate equal to 0 or equal to
\* the bound unchanged, maps a coordinate strictly below 0 to the bound and one
\* strictly above the bound to 0 (a teleport, not a modulo).
C13_Wrap ==
    (ev.kind = "wrapPosition" /\ ev.done) =>
        /\ WrapOk(ev.arg.x, ev.size.x, ev.result.x)
        /\ WrapOk(ev.arg.y, ev.size.y, ev.result.y)

\* one coordinate 2 below 0 and the other 2 above the bound are teleported
C13_Witness ==
    /\ ev.kind = "wrapPosition" /\ ev.done
    /\ ev.arg.x = -2 /\ ev.size.x = 3 /\ ev.result.x = 3
    /\ ev.arg.y = 5 /\ ev.size.y = 3 /\ ev.result.y = 0

Radius(o) ==
    CASE o.kind = "ship" -> 12
      [] o.kind = "bullet" -> 2
      [] o.kind = "asteroid" /\ o.size = "large" -> 20
      [] o.kind = "asteroid" /\ o.size = "medium" -> 12
      [] o.kind = "asteroid" /\ o.size = "small" -> 6

DistSq(a, b) == (a.x - b.x) * (a.x - b.x) + (a.y - b.y) * (a.y - b.y)

\* C14: two entities collide exactly when their distance is strictly less than
\* the sum of their radii (ship 12, bullet 2, asteroid 20 / 12 / 6): a distance
\* equal to the sum does not collide, a smaller one does, and the answer is
\* the same whichever entity the test is called on.
C14_Collision ==
    (ev.kind = "collidesWith" /\ ev.done) =>
        LET r == Radius(ev.a) + Radius(ev.b)
        IN  /\ ev.result <=> DistSq(ev.a, ev.b) < r * r
            /\ ev.mirrored <=> ev.result

\* a large and a small asteroid exactly 26 apart, off the axes, do not collide
C14_Witness ==
    /\ ev.kind = "collidesWith" /\ ev.done
    /\ ev.a.kind = "asteroid" /\ ev.a.size = "large"
    /\ ev.b.kind = "asteroid" /\ ev.b.size = "small"
    /\ ev.a.x = 10 /\ ev.a.y = 24 /\ ~ev.result

\* C16: when the storage fails on read, on parse or on write no high-score
\* operation lets the failure out: no handler sees an exception; with a read
\* or parse failure reading gives the empty list and the best score 0; with a
\* write failure a submit returns false; and the tick that ends a game
\* completes and leaves the game in GAME_OVER.
C16_StorageFailures ==
    /\ ~ev.threw
    /\ (stored.fault = "read" \/ ~stored.item.valid)
          => /\ getHighScores(stored) = [threw |-> FALSE, value |-> <<>>]
             /\ getHighScore(stored) = [threw |-> FALSE, value |-> 0]
             /\ ~isHighScore(stored, score).threw
    /\ stored.fault = "write"
          => LET r == HighScoreManager_addScore(stored, score, level)
             IN  ~r.threw /\ ~r.result /\ r.stored = stored
    /\ (ev.kind = "tick" /\ pre.lives > 0 /\ lives = 0)
          => (state = "GAME_OVER"
              /\ (stored.fault = "write" => statusText = "GAME OVER"))

\* a game that scored ends on a storage whose setItem throws
C16_Witness ==
    /\ ev.kind = "tick" /\ pre.lives > 0 /\ lives = 0 /\ state = "GAME_OVER"
    /\ stored.fault = "write" /\ Len(submitted) = 1 /\ score > 0

\* how many submissions come before submission i in the order "higher score
\* first, earlier first among equals"
Rank(i) ==
    Cardinality({j \in 1..Len(submitted) :
                    \/ submitted[j].score > submitted[i].score
                    \/ (submitted[j].score = submitted[i].score /\ j < i)})

\* C15: after any sequence of submissions to an empty store the stored list
\* is in descending score order and holds at most 10 entries, the 10 highest
\* submitted with an earlier entry winning a tie; a submission lower than all
\* 10 entries of a full list leaves the list unchanged and returns false.
C15_TopTen ==
    ev.kind = "addScore" =>
        LET list == stored.item.list
            n == Len(submitted)
            old == pre.stored.item.list
        IN  /\ Len(list) = (IF n < 10 THEN n ELSE 10)
            /\ \A k \in 1..(Len(list) - 1) : list[k].score >= list[k + 1].score
            /\ \A i \in 1..n : Rank(i) < 10 => list[Rank(i) + 1] = submitted[i]
            /\ (ev.done /\ Len(old) = 10
                 /\ \A k \in 1..10 : ev.score < old[k].score)
                  => (stored = pre.stored /\ ~ev.result)

\* an eleventh submission lower than the ten stored is turned away
C15_Witness ==
    /\ ev.kind = "addScore" /\ ev.done /\ Len(submitted) = 11
    /\ ev.score = 1 /\ ~ev.result
    /\ \A k \in 1..10 : submitted[k].score = 2

\* some asteroid of asts collides with the ship s (by the radii of C14)
ShipHit(s, asts) ==
    \E k \in 1..Len(asts) :
        DistSq(s, asts[k]) < (Radius(s) + Radius(asts[k])) * (Radius(s) + Radius(asts[k]))

C18_BulletLifetime ==
    /\ \A i \in 1..Len(bullets) : bullets[i].active /\ bullets[i].lifeTime <= 2000
    /\ PlayingTick =>
          /\ Len(ev.updatedBullets) = Len(ev.inBullets)
          /\ \A i \in 1..Len(ev.inBullets) :
                LET b == ev.inBullets[i]
                    u == ev.updatedBullets[i]
                IN  /\ u.lifeTime = b.lifeTime + ev.dt
                    /\ u.lifeTime > 2000 => (~u.active /\ u.x = b.x /\ u.y = b.y)
                    /\ u.lifeTime <= 2000
                          => /\ u.active
                             /\ WrapOk(b.x + MulDt(b.vx, ev.dt), canvasSize.x, u.x)
                             /\ WrapOk(b.y + MulDt(b.vy, ev.dt), canvasSize.y, u.y)
          /\ ev.preBullets = SelectSeq(ev.updatedBullets, LAMBDA u : u.lifeTime <= 2000)
          /\ \A i \in 1..Len(ev.preBullets) :
                ev.preBullets[i].active /\ ev.preBullets[i].lifeTime <= 2000

\* in one frame a bullet reaches exactly 2.0 s and stays while an older one
\* passes 2.0 s and is dropped
C18_Witness ==
    /\ PlayingTick
    /\ \E i \in 1..Len(ev.updatedBullets) : ev.updatedBullets[i].lifeTime > 2000
    /\ \E i \in 1..Len(ev.preBullets) : ev.preBullets[i].lifeTime = 2000

\* C19 as stated: the fire cooldown is >= 0 in every reachable state, while
\* it decrements by deltaTime on every PLAYING tick regardless of whether fire
\* is pressed.
C19_Original ==
    /\ fireDelay >= 0
    /\ (PlayingTick /\ ev.created = 0) => fireDelay = pre.fireDelay - ev.dt

\* C19, amended: the fire cooldown can be negative.  It decrements by
\* deltaTime on every PLAYING tick regardless of whether fire is pressed, with
\* no floor at 0; a tick that creates a bullet sets it to 0.15 s (150 ms);
\* nothing else changes it; it is at most 0.15 s in every reachable state.
C19_Cooldown ==
    /\ fireDelay <= 150
    /\ ev.kind = "init" => fireDelay = 0
    /\ (PlayingTick /\ ev.created = 0) => fireDelay = pre.fireDelay - ev.dt
    /\ (PlayingTick /\ ev.created = 1) => fireDelay = 150
    /\ (ev.kind \in {"tick", "keydown", "keyup"} /\ ~PlayingTick)
          => fireDelay = pre.fireDelay

\* play goes on with fire not held and the cooldown falls below 0
C19_Witness ==
    /\ PlayingTick /\ "Space" \notin keys /\ ev.dt > 0
    /\ pre.fireDelay <= 0 /\ fireDelay < pre.fireDelay

\* the last handler ended with a field that createAsteroids has just made
FreshField ==
    \/ ev.kind = "init"
    \/ SpaceDown /\ pre.state = "GAME_OVER"
    \/ PlayingTick /\ ev.cleared

\* C20: every asteroid of a field made by createAsteroids (at construction, at
\* restart, at a level clear) is at least 100 away from the ship, as the ship is
\* at that moment, on the x axis or on the y axis, so none of them collides
\* with the ship when the field is created.
C20_SpawnClearance ==
    FreshField =>
        \A i \in 1..Len(asteroids) :
            /\ asteroids[i].size = "large"
            /\ Abs(asteroids[i].x - ship.x) >= 100 \/ Abs(asteroids[i].y - ship.y) >= 100
            /\ ~collidesWith(ship, asteroids[i])
            /\ ~collidesWith(asteroids[i], ship)

\* a level is cleared by a ship that has left the canvas centre, and the new
\* field has an asteroid at a place that is too close to the centre
C20_Witness ==
    /\ PlayingTick /\ ev.cleared /\ Len(asteroids) = 6
    /\ 2 * ship.y # canvasSize.y
    /\ \E i \in 1..Len(asteroids) :
          /\ Abs(2 * asteroids[i].x - canvasSize.x) < 200
          /\ Abs(2 * asteroids[i].y - canvasSize.y) < 200

\* the last handler was a restart: it began a new session
Restarted == SpaceDown /\ pre.state = "GAME_OVER"

\* C21: lives is in 0..3 and never increases within a session; the state is
\* GAME_OVER exactly when lives = 0 (so lives >= 1 in READY, PLAYING and
\* PAUSED); level >= 1 and score >= 0; within a session neither level nor
\* score decreases.
C21_Counters ==
    /\ lives \in 0..3
    /\ (state = "GAME_OVER") <=> (lives = 0)
    /\ state \in {"READY", "PLAYING", "PAUSED"} => lives >= 1
    /\ level >= 1 /\ score >= 0
    /\ ~Restarted => /\ lives <= pre.lives
                     /\ level >= pre.level
                     /\ score >= pre.score

\* the last life is lost in a game that has scored, and the game is over
C21_Witness ==
    /\ PlayingTick /\ pre.lives = 1 /\ lives = 0 /\ state = "GAME_OVER"
    /\ score > 0

\* the points still to be had from an asteroid: its own and those of its pieces
Worth(size) ==
    CASE size = "large" -> 20 + 2 * 50 + 4 * 100
      [] size = "medium" -> 50 + 2 * 100
      [] size = "small" -> 100

RECURSIVE WorthOf(_)
WorthOf(asts) ==
    IF asts = <<>> THEN 0 ELSE Worth(asts[1].size) + WorthOf(Tail(asts))

\* the number of large asteroids the levels 1..L start with: sum of (4 + l)
RECURSIVE FieldsUpTo(_)
FieldsUpTo(L) == IF L <= 0 THEN 0 ELSE (4 + L) + FieldsUpTo(L - 1)

\* C22: asteroids are removed only by bullets and a large asteroid is worth
\* 520 points in all, so the score and the worth of the asteroids that are
\* left always add up to 520 * sum over l = 1..level of (4 + l); at the moment
\* the level advances from L to L + 1 the score is exactly
\* 520 * sum over l = 1..L of (4 + l).
C22_ScoreAtClear ==
    /\ score + WorthOf(asteroids) = 520 * FieldsUpTo(level)
    /\ (PlayingTick /\ ev.cleared)
          => /\ ev.postScore = 520 * FieldsUpTo(pre.level)
             /\ score = 520 * FieldsUpTo(pre.level)
             /\ level = pre.level + 1
    /\ (PlayingTick /\ level # pre.level) => ev.cleared

\* level 1 is cleared with 2600 points and the six asteroids of level 2 appear
C22_Witness ==
    /\ PlayingTick /\ ev.cleared /\ pre.level = 1 /\ level = 2
    /\ score = 2600 /\ WorthOf(asteroids) = 6 * 520

InBounds(o) == 0 <= o.x /\ o.x <= canvasSize.x /\ 0 <= o.y /\ o.y <= canvasSize.y

\* C23: with a canvas of fixed size W x H the ship, every asteroid and every
\* bullet has 0 <= x <= W and 0 <= y <= H at the end of every tick (and of
\* every other handler), however large the frame time.
C23_InBounds ==
    /\ canvasSize = env.canvas
    /\ InBounds(ship)
    /\ \A i \in 1..Len(asteroids) : InBounds(asteroids[i])
    /\ \A i \in 1..Len(bullets) : InBounds(bullets[i])

\* a step that is longer than the canvas: a bullet that one frame carries more
\* than a whole canvas height beyond the top edge is in the game at the
\* bottom edge
C23_Witness ==
    /\ PlayingTick
    /\ \E i \in 1..Len(ev.inBullets) :
          /\ ev.inBullets[i].y + MulDt(ev.inBullets[i].vy, ev.dt) < -canvasSize.y
          /\ ev.updatedBullets[i].active
          /\ ev.updatedBullets[i].y = canvasSize.y
          /\ \E k \in 1..Len(bullets) : bullets[k] = ev.updatedBullets[i]

\* C24: a tick that loses a life finds asteroids at its level check and leaves
\* the level unchanged; the tick that enters GAME_OVER does not increment the
\* level, and the level it submits with the final score is the level that was
\* being played.
C24_NoAdvanceOnLoss ==
    /\ (PlayingTick /\ lives < pre.lives)
          => /\ Len(ev.postAsteroids) > 0 /\ ~ev.cleared
             /\ level = pre.level
             /\ asteroids = ev.postAsteroids
    /\ (PlayingTick /\ state = "GAME_OVER")
          => /\ lives < pre.lives
             /\ level = pre.level
             /\ submitted = Append(pre.submitted, [score |-> score, level |-> pre.level])

\* the frame that ends the game also shot an asteroid: the final score with
\* that award is submitted with the unchanged level
C24_Witness ==
    /\ PlayingTick /\ state = "GAME_OVER" /\ lives < pre.lives
    /\ Len(ev.killed) > 0 /\ score > pre.score
    /\ Len(submitted) = Len(pre.submitted) + 1

\* C25: in GAME_OVER the banner render draws on the canvas reads
\* 'NEW HIGH SCORE!' exactly when the submit made at game over returned true,
\* that is exactly when the status text gameOver set reads 'NEW HIGH SCORE!',
\* whatever the high-score list held before.
C25_Banner ==
    (ev.kind = "tick" /\ state = "GAME_OVER")
        => ((ev.banner = "NEW HIGH SCORE!") <=> (statusText = "NEW HIGH SCORE!"))

\* C26: with a working storage, isHighScore(s) evaluated just before
\* addScore(s, level) returns what that addScore returns: true exactly when
\* the list has fewer than 10 entries or s is strictly greater than the score
\* in 10th place.
C26_WouldBe ==
    (ev.kind = "addScore" /\ ev.done) =>
        LET old == pre.stored.item.list
        IN  /\ ev.would = ev.result
            /\ ev.result <=> (Len(old) < 10 \/ ev.score > old[10].score)

\* a score equal to the 10th place of a full list is not a high score for
\* either call
C26_Witness ==
    /\ ev.kind = "addScore" /\ ev.done
    /\ Len(pre.stored.item.list) = 10
    /\ ev.score = pre.stored.item.list[10].score
    /\ ev.score < pre.stored.item.list[1].score
    /\ ~ev.would /\ ~ev.result

\* C27: every frame records its timestamp, whatever the state, so the
\* deltaTime of a frame is the time since the frame callback before it.  A
\* PLAYING frame adds exactly that interval to the bullet lifetimes, takes it
\* from the fire cooldown and moves the asteroids by it, however much time
\* went by in READY, PAUSED or GAME_OVER before; a frame outside PLAYING adds
\* nothing to any of them.
C27_FrameTime ==
    /\ lastTime = clock
    /\ ev.kind = "tick" => ev.dt = ev.interval
    /\ PlayingTick =>
          /\ \A i \in 1..Len(ev.inBullets) :
                ev.updatedBullets[i].lifeTime = ev.inBullets[i].lifeTime + ev.interval
          /\ ev.created = 0 => fireDelay = pre.fireDelay - ev.interval
          /\ Len(ev.preAsteroids) = Len(pre.asteroids)
          /\ \A i \in 1..Len(pre.asteroids) :
                /\ ev.preAsteroids[i].x
                      = wrapAxis(pre.asteroids[i].x + MulDt(pre.asteroids[i].vx, ev.interval),
                                 canvasSize.x)
                /\ ev.preAsteroids[i].y
                      = wrapAxis(pre.asteroids[i].y + MulDt(pre.asteroids[i].vy, ev.interval),
                                 canvasSize.y)
    /\ IdleTick =>
          /\ bullets = pre.bullets /\ fireDelay = pre.fireDelay
          /\ ship = pre.ship /\ asteroids = pre.asteroids

\* the first PLAYING frame after a frame of a second outside PLAYING: a bullet
\* that was fired before the break ages by the 150 ms of this frame only
C27_Witness ==
    /\ PlayingTick /\ ev.idleBefore >= 1000 /\ ev.interval = 150
    /\ \E i \in 1..Len(ev.inBullets) :
          /\ ev.inBullets[i].lifeTime >= 150
          /\ ev.updatedBullets[i].lifeTime = ev.inBullets[i].lifeTime + 150

====
